---- MODULE Spec2Model ----
(***************************************************************************)
(* Model of domino.py: Tile, DOMINO_SET, Table, Player and Game.           *)
(*                                                                         *)
(* A Tile object is modelled by the ordered pair <<left, right>> it holds. *)
(* The 28 objects of DOMINO_SET are built with left <= right and are       *)
(* identified by that pair; the set `rotated` holds the objects of         *)
(* DOMINO_SET whose fields were swapped by rotate() while they were still  *)
(* stored in a hand.  A hand is a Python set: an element is looked up by   *)
(* the hash it had when it was inserted (always the left <= right pair,    *)
(* since tiles enter a hand straight from the stock) and then compared     *)
(* with Tile.__eq__ on its current fields.                                 *)
(*                                                                         *)
(* DOMINO_SET is modelled by the ranges of its generator (pips 0..6), as   *)
(* if Tile.__init__ accepted them: read literally, the range test of line  *)
(* 9 (pips 1..6) rejects Tile(0, 0) while DOMINO_SET is being built and no *)
(* Game can exist.  The range test is modelled by TileInit and is applied  *)
(* to the tiles a caller of Game.play constructs.                          *)
(*                                                                         *)
(* The driver is the caller of the Game: it constructs the game, calls     *)
(* deal() once and then calls play and draw_until_playable.  After some    *)
(* shuffles it first makes a fixed series of calls (its opening), so that  *)
(* long rounds are reached; after that it makes any call, until it has     *)
(* placed MaxFree further tiles.                                           *)
(***************************************************************************)
EXTENDS Integers, Sequences, FiniteSets, TLC

VARIABLES
    n,              \* len(game.players)
    hands,          \* player index -> set of DOMINO_SET objects in player.hand
    rotated,        \* DOMINO_SET objects whose left/right are swapped
    stock,          \* game.stock, a list; pop() takes the last element
    tiles,          \* game.table.tiles, a deque of oriented pairs
    value_counts,   \* game.table._value_counts
    first_player,   \* game.first_player, None_ when unset
    turn,           \* game.turn
    seed,           \* the shuffle deal() drew, 0 before deal() is called
    step,           \* the number of calls of its opening the driver has made
    free,           \* the number of tiles placed by calls after the opening
    last            \* the last call made by the driver and its outcome

vars == <<n, hands, rotated, stock, tiles, value_counts, first_player, turn,
          seed, step, free, last>>

\* ---------------------------------------------------------------- bounds
\* NumShuffles: the shuffles deal() chooses among.  MaxFree: the number of
\* tiles the driver places after the opening that belongs to the shuffle.
NumShuffles == 5
MaxFree == 2

\* ------------------------------------------------------------- constants
None_ == 0 - 1
MaxPip == 6
HandSize == 7
MinPlayers == 2
MaxPlayers == 4
BlockedCount == 8

Pips == 0..MaxPip

\* ------------------------------------------------------------------ Tile
TileInit(l, r) == ~(l < 1 \/ l > 6 \/ r < 1 \/ r > 6)

rotate(t) == <<t[2], t[1]>>

is_double(t) == t[1] = t[2]

TileEq(a, b) == a[1] = b[1] /\ a[2] = b[2]

TileHash(t) == <<t[1], t[2]>>

DOMINO_SET == {<<l, r>> : l \in Pips, r \in Pips} \ {t \in Pips \X Pips : t[2] < t[1]}

\* ----------------------------------------------------------------- Table
\* A table value is the pair of fields [tiles, counts] of a Table object.
EmptyTable == [tiles |-> <<>>, counts |-> [v \in Pips |-> 0]]

is_empty(tb) == tb.tiles = <<>>

left_end(tb) == IF ~is_empty(tb) THEN tb.tiles[1][1] ELSE None_

right_end(tb) == IF ~is_empty(tb) THEN tb.tiles[Len(tb.tiles)][2] ELSE None_

\* Only evaluated on a non-empty table: on an empty one both ends are None
\* and the index _value_counts[None] raises TypeError.
is_blocked(tb) ==
    IF left_end(tb) # right_end(tb) THEN FALSE
    ELSE tb.counts[left_end(tb)] = BlockedCount

can_play_left(tb, t) == t[1] = left_end(tb) \/ t[2] = left_end(tb)

can_play_right(tb, t) == t[1] = right_end(tb) \/ t[2] = right_end(tb)

can_play(tb, t) == can_play_left(tb, t) \/ can_play_right(tb, t)

Incr(counts, t) ==
    LET c1 == [counts EXCEPT ![t[1]] = @ + 1]
    IN  [c1 EXCEPT ![t[2]] = @ + 1]

\* The result of a placement: exc is the exception raised ("none" when the
\* call returns), tb the table afterwards, tile the fields of the tile object
\* afterwards (rotate() mutates the object that was passed in), at the
\* statement that stored the tile: "first" (line 114), "left" (line 91),
\* "right" (line 102) or "nowhere".
Placed(exc, tb, t, at) == [exc |-> exc, tb |-> tb, tile |-> t, at |-> at]

\* _add_left with the rotation moved before the test of line 85.
_add_left_rotates_first(tb, t) ==
    LET o == IF ~(t[2] = left_end(tb)) THEN rotate(t) ELSE t
    IN  IF ~can_play_left(tb, o) THEN Placed("InvalidTilePlacement", tb, o, "nowhere")
        ELSE Placed("none",
                    [tiles |-> <<o>> \o tb.tiles, counts |-> Incr(tb.counts, o)],
                    o, "left")

\* _add_left without the rotation of lines 88-89.
_add_left_no_rotate(tb, t) ==
    IF ~can_play_left(tb, t) THEN Placed("InvalidTilePlacement", tb, t, "nowhere")
    ELSE Placed("none",
                [tiles |-> <<t>> \o tb.tiles, counts |-> Incr(tb.counts, t)],
                t, "left")

_add_left(tb, t) ==
    IF ~can_play_left(tb, t) THEN Placed("InvalidTilePlacement", tb, t, "nowhere")
    ELSE LET o == IF ~(t[2] = left_end(tb)) THEN rotate(t) ELSE t
         IN  Placed("none",
                    [tiles |-> <<o>> \o tb.tiles, counts |-> Incr(tb.counts, o)],
                    o, "left")

\* _add_right without the rotation of lines 99-100.
_add_right_no_rotate(tb, t) ==
    IF ~can_play_right(tb, t) THEN Placed("InvalidTilePlacement", tb, t, "nowhere")
    ELSE Placed("none",
                [tiles |-> Append(tb.tiles, t), counts |-> Incr(tb.counts, t)],
                t, "right")

_add_right(tb, t) ==
    IF ~can_play_right(tb, t) THEN Placed("InvalidTilePlacement", tb, t, "nowhere")
    ELSE LET o == IF ~(t[1] = right_end(tb)) THEN rotate(t) ELSE t
         IN  Placed("none",
                    [tiles |-> Append(tb.tiles, o), counts |-> Incr(tb.counts, o)],
                    o, "right")

Sides == {"left", "right"}
NoSide == "None"

\* add_tile without the test "not tile.is_double" of line 126.
add_tile_no_double_test(tb, t, side) ==
    IF is_empty(tb)
    THEN Placed("none", [tiles |-> Append(tb.tiles, t), counts |-> tb.counts], t,
                "first")
    ELSE IF side = "left" THEN _add_left(tb, t)
    ELSE IF side = "right" THEN _add_right(tb, t)
    ELSE IF can_play_left(tb, t) /\ can_play_right(tb, t)
    THEN Placed("AmbiguousTilePlacement", tb, t, "nowhere")
    ELSE LET l == _add_left(tb, t)
         IN  IF l.exc = "InvalidTilePlacement" THEN _add_right(tb, t) ELSE l

\* add_tile trying the right end before the left one in lines 132-135.
add_tile_right_first(tb, t, side) ==
    IF is_empty(tb)
    THEN Placed("none", [tiles |-> Append(tb.tiles, t), counts |-> tb.counts], t,
                "first")
    ELSE IF side = "left" THEN _add_left(tb, t)
    ELSE IF side = "right" THEN _add_right(tb, t)
    ELSE IF ~is_double(t) /\ can_play_left(tb, t) /\ can_play_right(tb, t)
    THEN Placed("AmbiguousTilePlacement", tb, t, "nowhere")
    ELSE LET r == _add_right(tb, t)
         IN  IF r.exc = "InvalidTilePlacement" THEN _add_left(tb, t) ELSE r

add_tile(tb, t, side) ==
    IF is_empty(tb)
    THEN Placed("none", [tiles |-> Append(tb.tiles, t), counts |-> tb.counts], t,
                "first")
    ELSE IF side = "left" THEN _add_left(tb, t)
    ELSE IF side = "right" THEN _add_right(tb, t)
    ELSE IF ~is_double(t) /\ can_play_left(tb, t) /\ can_play_right(tb, t)
    THEN Placed("AmbiguousTilePlacement", tb, t, "nowhere")
    ELSE LET l == _add_left(tb, t)
         IN  IF l.exc = "InvalidTilePlacement" THEN _add_right(tb, t) ELSE l

\* ---------------------------------------------------------------- Player
RECURSIVE SumPips(_)
SumPips(hand) ==
    IF hand = {} THEN 0
    ELSE LET t == CHOOSE x \in hand : TRUE
         IN  t[1] + t[2] + SumPips(hand \ {t})

score(hand) == SumPips(hand)

\* ------------------------------------------------------------------ Game
Tb == [tiles |-> tiles, counts |-> value_counts]

Players == 0..(n - 1)

\* The current left/right fields of an object of DOMINO_SET, rot being the
\* set of rotated objects.
FieldsIn(rot, o) == IF o \in rot THEN rotate(o) ELSE o

Fields(o) == FieldsIn(rotated, o)

\* set.__contains__ / set.remove with a key whose fields are f: the elements
\* of the hand whose stored hash (the hash at insertion, when the object had
\* its left <= right fields) equals the hash of the key and that compare
\* equal to the key.
Lookup(hand, rot, f) ==
    {e \in hand : TileHash(e) = TileHash(f) /\ TileEq(FieldsIn(rot, e), f)}

SetSize == 28

\* random.shuffle: the orders the model lets the shuffle produce.  deal()
\* pops from the end of the list.
Shuffles == <<
    \* 1: the double-six is the 20th tile popped
    << <<1,4>>, <<0,4>>, <<1,6>>, <<3,5>>, <<0,1>>, <<0,2>>, <<2,6>>,
       <<0,3>>, <<6,6>>, <<1,5>>, <<4,4>>, <<2,5>>, <<0,6>>, <<0,0>>,
       <<4,5>>, <<2,4>>, <<4,6>>, <<2,2>>, <<3,4>>, <<5,6>>, <<3,3>>,
       <<2,3>>, <<5,5>>, <<1,1>>, <<1,2>>, <<3,6>>, <<0,5>>, <<1,3>> >>,
    \* 2: with two players, player 1 is dealt the seven doubles
    << <<4,6>>, <<3,6>>, <<3,5>>, <<2,6>>, <<2,5>>, <<1,5>>, <<1,4>>,
       <<0,6>>, <<0,5>>, <<0,4>>, <<0,3>>, <<0,2>>, <<5,6>>, <<1,6>>,
       <<5,5>>, <<2,4>>, <<4,4>>, <<1,3>>, <<3,3>>, <<4,5>>, <<2,2>>,
       <<3,4>>, <<1,1>>, <<2,3>>, <<6,6>>, <<1,2>>, <<0,0>>, <<0,1>> >>,
    \* 3: with two players, the seven tiles with a 0 are dealt; after the
    \* opening and two more tiles the table is blocked and both hands score
    \* the same
    << <<3,3>>, <<4,6>>, <<4,5>>, <<2,2>>, <<3,6>>, <<3,5>>, <<2,6>>,
       <<2,5>>, <<2,4>>, <<2,3>>, <<1,6>>, <<1,5>>, <<1,4>>, <<1,3>>,
       <<0,1>>, <<5,5>>, <<0,0>>, <<4,4>>, <<0,6>>, <<1,1>>, <<0,5>>,
       <<1,2>>, <<0,4>>, <<0,2>>, <<6,6>>, <<5,6>>, <<3,4>>, <<0,3>> >>,
    \* 4: with two players, the seven tiles with a 0 are dealt
    << <<5,5>>, <<4,6>>, <<4,5>>, <<4,4>>, <<3,6>>, <<3,5>>, <<2,6>>,
       <<2,5>>, <<2,4>>, <<2,3>>, <<1,6>>, <<1,5>>, <<1,4>>, <<1,3>>,
       <<0,1>>, <<3,3>>, <<0,0>>, <<2,2>>, <<0,6>>, <<1,1>>, <<0,5>>,
       <<1,2>>, <<0,4>>, <<0,2>>, <<6,6>>, <<5,6>>, <<3,4>>, <<0,3>> >>,
    \* 5: with two players, six of the seven tiles with a 6 are dealt
    << <<5,5>>, <<4,5>>, <<4,4>>, <<3,5>>, <<3,4>>, <<3,3>>, <<2,5>>,
       <<2,4>>, <<1,5>>, <<1,4>>, <<0,6>>, <<0,5>>, <<0,4>>, <<0,3>>,
       <<0,2>>, <<2,3>>, <<0,1>>, <<2,2>>, <<0,0>>, <<1,3>>, <<5,6>>,
       <<1,2>>, <<4,6>>, <<1,1>>, <<6,6>>, <<3,6>>, <<2,6>>, <<1,6>> >>,
    \* 6: the double-six is the second tile popped
    << <<0,0>>, <<0,1>>, <<0,2>>, <<0,3>>, <<0,4>>, <<0,5>>, <<0,6>>,
       <<1,1>>, <<1,2>>, <<1,3>>, <<1,4>>, <<1,5>>, <<1,6>>, <<2,2>>,
       <<2,3>>, <<2,4>>, <<2,5>>, <<2,6>>, <<3,3>>, <<3,4>>, <<3,5>>,
       <<3,6>>, <<4,4>>, <<4,5>>, <<4,6>>, <<5,5>>, <<6,6>>, <<5,6>> >> >>

ShuffleOrder(s) == Shuffles[((s - 1) % Len(Shuffles)) + 1]

\* The driver: the calls of play it makes first after the shuffle s, before
\* it goes on with calls of its own choice.
Call(o, fresh, side) == [tile |-> o, fresh |-> fresh, side |-> side]

Openings == <<
    <<>>,
    << Call(<<0,0>>, FALSE, NoSide), Call(<<0,1>>, FALSE, "right"),
       Call(<<1,1>>, FALSE, NoSide), Call(<<1,2>>, FALSE, NoSide),
       Call(<<2,2>>, FALSE, "right"), Call(<<2,3>>, TRUE, NoSide),
       Call(<<3,3>>, TRUE, NoSide), Call(<<3,4>>, FALSE, "right"),
       Call(<<4,4>>, FALSE, NoSide), Call(<<4,5>>, FALSE, NoSide),
       Call(<<5,5>>, FALSE, NoSide) >>,
    << Call(<<3,4>>, FALSE, NoSide), Call(<<0,3>>, FALSE, NoSide),
       Call(<<0,4>>, FALSE, "right"), Call(<<0,5>>, FALSE, "right"),
       Call(<<5,6>>, FALSE, NoSide), Call(<<0,6>>, FALSE, "right"),
       Call(<<0,0>>, FALSE, NoSide), Call(<<0,2>>, FALSE, "left") >>,
    << Call(<<0,5>>, FALSE, NoSide), Call(<<5,6>>, FALSE, NoSide),
       Call(<<0,6>>, FALSE, "right"), Call(<<0,4>>, FALSE, "left"),
       Call(<<3,4>>, FALSE, NoSide), Call(<<0,3>>, FALSE, "left"),
       Call(<<0,0>>, FALSE, NoSide), Call(<<0,2>>, FALSE, "left") >>,
    << Call(<<6,6>>, FALSE, NoSide), Call(<<1,6>>, TRUE, "right"),
       Call(<<1,6>>, FALSE, "right"), Call(<<2,6>>, TRUE, "right"),
       Call(<<2,6>>, FALSE, "right"), Call(<<3,6>>, TRUE, "right"),
       Call(<<3,6>>, TRUE, "right") >>,
    <<>> >>

Opening(s) == IF s = 0 THEN <<>> ELSE Openings[((s - 1) % Len(Openings)) + 1]

\* What the driver saw of its last call: the operation, the side argument,
\* the exception raised ("none" when the call returned), the player returned
\* (None_ for None) and the statement of add_tile that stored the tile.
Result(op, side, exc, ret, at) ==
    [op |-> op, side |-> side, exc |-> exc, ret |-> ret, at |-> at]

Init ==
    /\ n \in MinPlayers..MaxPlayers
    /\ hands = [p \in 0..(n - 1) |-> {}]
    /\ rotated = {}
    /\ stock = ShuffleOrder(1)
    /\ tiles = <<>>
    /\ value_counts = [v \in Pips |-> 0]
    /\ first_player = None_
    /\ turn = 0
    /\ seed = 0
    /\ step = 0
    /\ free = 0
    /\ last = Result("init", NoSide, "none", None_, "nowhere")

\* The 7 * n iterations of the two nested loops of deal(), k counting them.
RECURSIVE DealLoop(_, _, _, _)
\* The loops reading the last tile of the stock without popping it.
DealLoop_no_pop(k, st, hs, fp) ==
    IF k = HandSize * n THEN [stock |-> st, hands |-> hs, first_player |-> fp]
    ELSE DealLoop(k + 1, st, [hs EXCEPT ![k % n] = @ \cup {st[Len(st)]}],
                  IF st[Len(st)] = <<6, 6>> THEN k % n ELSE fp)

DealLoop(k, st, hs, fp) ==
    IF k = HandSize * n THEN [stock |-> st, hands |-> hs, first_player |-> fp]
    ELSE LET index == k % n
             tile  == st[Len(st)]
         IN  DealLoop(k + 1,
                      SubSeq(st, 1, Len(st) - 1),
                      [hs EXCEPT ![index] = @ \cup {tile}],
                      IF tile[1] = 6 /\ tile[2] = 6 THEN index ELSE fp)

\* deal() on the freshly constructed game.
deal(s) ==
    /\ seed = 0
    /\ \E d \in {DealLoop(0, ShuffleOrder(s), hands, first_player)} :
           /\ stock' = d.stock
           /\ hands' = d.hands
           /\ first_player' = d.first_player
    /\ seed' = s
    /\ last' = Result("deal", NoSide, "none", None_, "nowhere")
    /\ UNCHANGED <<n, rotated, tiles, value_counts, turn, step, free>>

\* The property current_player: exc is "NotStarted" when it raises the
\* ValueError of line 171.
current_player ==
    IF first_player = None_ \/ first_player = 0
    THEN [exc |-> "NotStarted", index |-> None_]
    ELSE [exc |-> "none", index |-> (turn + first_player) % n]

available_plays_of(hand, tb) == {t \in hand : can_play(tb, Fields(t))}

\* The property available_plays, evaluated when current_player returns.
available_plays == available_plays_of(hands[current_player.index], Tb)

\* min replaced by a scan that keeps the later of two equal scores.
min_scoring_player_last(hs) ==
    CHOOSE p \in DOMAIN hs :
        /\ \A q \in DOMAIN hs : score(hs[p]) <= score(hs[q])
        /\ \A q \in DOMAIN hs : q > p => score(hs[q]) > score(hs[p])

\* min(self.players, key=score): the first player with the least score.
min_scoring_player(hs) ==
    CHOOSE p \in DOMAIN hs :
        /\ \A q \in DOMAIN hs : score(hs[p]) <= score(hs[q])
        /\ \A q \in DOMAIN hs : q < p => score(hs[q]) > score(hs[p])

Outcome(exc, ret, tb, hs, rot, tn, at) ==
    [exc |-> exc, ret |-> ret, tb |-> tb, hands |-> hs, rotated |-> rot,
     turn |-> tn, at |-> at]

\* round_end reading current_player after the turn has advanced.
round_end_turn_first(cp, tb, hs, rot, at) ==
    IF hs[cp] = {} THEN Outcome("none", (cp + 1) % n, tb, hs, rot, turn + 1, at)
    ELSE IF is_blocked(tb)
    THEN Outcome("none", min_scoring_player(hs), tb, hs, rot, turn, at)
    ELSE Outcome("none", None_, tb, hs, rot, turn + 1, at)

\* round_end with the turn counter advanced before the tests of the hand
\* and of the table.
round_end_always_advances(cp, tb, hs, rot, at) ==
    IF hs[cp] = {} THEN Outcome("none", cp, tb, hs, rot, turn + 1, at)
    ELSE IF is_blocked(tb)
    THEN Outcome("none", min_scoring_player(hs), tb, hs, rot, turn + 1, at)
    ELSE Outcome("none", None_, tb, hs, rot, turn + 1, at)

\* Lines 186-193 of play: the hand of player cp has lost the tile.
round_end(cp, tb, hs, rot, at) ==
    IF hs[cp] = {} THEN Outcome("none", cp, tb, hs, rot, turn, at)
    ELSE IF is_blocked(tb)
    THEN Outcome("none", min_scoring_player(hs), tb, hs, rot, turn, at)
    ELSE Outcome("none", None_, tb, hs, rot, turn + 1, at)

\* Game.play(tile, side).  o is the object of DOMINO_SET the driver names;
\* fresh says that the driver passes a newly constructed Tile(o[1], o[2])
\* instead of the object itself.  "NotStarted" and "NotInHand" are the two
\* ValueErrors of lines 171 and 182, "KeyError" is raised by set.remove.
play(o, fresh, side) ==
    IF current_player.exc # "none"
    THEN Outcome("NotStarted", None_, Tb, hands, rotated, turn, "nowhere")
    ELSE
    LET cp   == current_player.index
        f    == IF fresh THEN o ELSE Fields(o)
    IN  IF Lookup(hands[cp], rotated, f) = {}
        THEN Outcome("NotInHand", None_, Tb, hands, rotated, turn, "nowhere")
        ELSE
        LET r    == add_tile(Tb, f, side)
            rot  == IF ~fresh /\ r.tile # f THEN rotated \cup {o} ELSE rotated
            rem  == Lookup(hands[cp], rot, r.tile)
        IN  IF r.exc # "none"
            THEN Outcome(r.exc, None_, r.tb, hands, rot, turn, r.at)
            ELSE IF rem = {}
            THEN Outcome("KeyError", None_, r.tb, hands, rot, turn, r.at)
            ELSE round_end(cp, r.tb, [hands EXCEPT ![cp] = @ \ rem], rot, r.at)

\* One call of play by the driver.
PlayCall(o, fresh, side) ==
    /\ fresh => TileInit(o[1], o[2])
    /\ \E out \in {play(o, fresh, side)} :
           /\ tiles' = out.tb.tiles
           /\ value_counts' = out.tb.counts
           /\ hands' = out.hands
           /\ rotated' = out.rotated
           /\ turn' = out.turn
           /\ last' = Result("play", side, out.exc, out.ret, out.at)
    /\ UNCHANGED <<n, stock, first_player, seed>>

\* The calls of the opening.
OpeningPlay ==
    /\ seed # 0
    /\ step < Len(Opening(seed))
    /\ LET c == Opening(seed)[step + 1]
       IN  PlayCall(c.tile, c.fresh, c.side)
    /\ step' = step + 1
    /\ UNCHANGED free

\* The tiles the driver names in a call of play: those of the current
\* player's hand and, for a call that is rejected, the tile of the next
\* player's hand that comes first in the default order.
Foreign ==
    LET h == hands[IF current_player.exc = "none"
                   THEN (current_player.index + 1) % n ELSE 0]
    IN  IF h = {} THEN {}
        ELSE {ShuffleOrder(1)[CHOOSE i \in 1..SetSize :
                 /\ ShuffleOrder(1)[i] \in h
                 /\ \A j \in 1..(i - 1) : ShuffleOrder(1)[j] \notin h]}

PlayTiles ==
    IF current_player.exc = "none" THEN hands[current_player.index] \cup Foreign
    ELSE Foreign

Play(o, fresh, side) ==
    /\ seed # 0
    /\ step >= Len(Opening(seed))
    /\ PlayCall(o, fresh, side)
    /\ tiles' # tiles => free < MaxFree
    /\ free' = IF tiles' # tiles THEN free + 1 ELSE free
    /\ UNCHANGED step

\* The loop of draw_until_playable() for the current player's hand.
RECURSIVE DrawLoop(_, _, _)
\* The loop without the test of available_plays before the first pop.
DrawLoop_pops_first(st, hand, tb) ==
    IF st # <<>>
    THEN DrawLoop(SubSeq(st, 1, Len(st) - 1), hand \cup {st[Len(st)]}, tb)
    ELSE [stock |-> st, hand |-> hand]

DrawLoop(st, hand, tb) ==
    IF st # <<>> /\ available_plays_of(hand, tb) = {}
    THEN DrawLoop(SubSeq(st, 1, Len(st) - 1), hand \cup {st[Len(st)]}, tb)
    ELSE [stock |-> st, hand |-> hand]

draw_until_playable ==
    /\ seed # 0
    /\ step >= Len(Opening(seed))
    /\ IF stock = <<>> THEN
            \* the loop condition is false before current_player is read
            /\ UNCHANGED <<stock, hands>>
            /\ last' = Result("draw", NoSide, "none", None_, "nowhere")
       ELSE IF current_player.exc # "none" THEN
            /\ UNCHANGED <<stock, hands>>
            /\ last' = Result("draw", NoSide, "NotStarted", None_, "nowhere")
       ELSE \E d \in {DrawLoop(stock, hands[current_player.index], Tb)} :
                /\ stock' = d.stock
                /\ hands' = [hands EXCEPT ![current_player.index] = d.hand]
                /\ last' = Result("draw", NoSide, "none", None_, "nowhere")
    /\ UNCHANGED <<n, rotated, tiles, value_counts, first_player, turn, seed,
                   step, free>>

Next ==
    \/ \E s \in 1..NumShuffles : deal(s)
    \/ OpeningPlay
    \/ \E o \in PlayTiles, fresh \in BOOLEAN, side \in Sides \cup {NoSide} :
          Play(o, fresh, side)
    \/ draw_until_playable

Spec == Init /\ [][Next]_vars

\* ---------------------------------------------------------------- claims
\* The tiles of the set that lie on the table, whatever their orientation.
Canon(t) == IF t[1] <= t[2] THEN t ELSE rotate(t)

OnTable == {Canon(tiles[i]) : i \in DOMAIN tiles}

HasPip(t, v) == t[1] = v \/ t[2] = v

InStock == {stock[i] : i \in DOMAIN stock}

Oriented == Pips \X Pips

RejectedPlay == {"NotInHand", "InvalidTilePlacement", "AmbiguousTilePlacement"}

\* C1: a call of play that fails because the tile is not in the current
\* player's hand, or with InvalidTilePlacement or AmbiguousTilePlacement,
\* leaves the table sequence, the orientation of every tile, the occupancy
\* counter, every hand, the stock and the turn counter as they were.
C1_RejectedPlayChangesNothing ==
    [][(last'.op = "play" /\ last'.exc \in RejectedPlay)
         => UNCHANGED <<tiles, rotated, value_counts, hands, stock, turn>>]_vars

C1_Witness ==
    /\ last.op = "play" /\ last.exc = "InvalidTilePlacement"
    /\ Len(tiles) >= 2 /\ rotated # {}

\* C2: when both ends show the same value X and every tile of the set with a
\* pip X lies on the table, is_blocked is true.
C2_BlockedComplete ==
    (/\ tiles # <<>>
     /\ left_end(Tb) = right_end(Tb)
     /\ \A t \in DOMINO_SET : HasPip(t, left_end(Tb)) => t \in OnTable)
    => is_blocked(Tb)

\* C3: on a non-empty table is_blocked is true only if both ends show the
\* same value, no tile that is off the table (in a hand or in the stock) has
\* that value, and no player holds a tile that play accepts.
C3_BlockedSound ==
    (tiles # <<>> /\ is_blocked(Tb)) =>
        /\ left_end(Tb) = right_end(Tb)
        /\ \A t \in InStock \cup UNION {hands[p] : p \in Players} :
              t \notin OnTable => ~HasPip(t, left_end(Tb))
        /\ \A p \in Players : \A t \in hands[p] : \A side \in Sides :
              ~(/\ Lookup(hands[p], rotated, Fields(t)) # {}
                /\ add_tile(Tb, Fields(t), side).exc = "none")

\* C4: after deal(), the empty table included, available_plays is the set of
\* the tiles of the current player's hand that add_tile accepts on some side.
C4_AvailablePlaysExact ==
    (seed # 0 /\ current_player.exc = "none") =>
        available_plays =
            {t \in hands[current_player.index] :
                \E side \in Sides : add_tile(Tb, Fields(t), side).exc = "none"}

\* C5: once deal() has set first_player to an index i of 0..n-1,
\* current_player returns players[(turn + i) mod n]; it raises only while
\* first_player is unset.
C5_CurrentPlayer ==
    first_player # None_ =>
        current_player = [exc |-> "none", index |-> (turn + first_player) % n]

\* C6: when deal() returns on the freshly constructed game, first_player is
\* the index of the player whose hand holds the double-six.
C6_DealSetsFirstPlayer ==
    last.op = "deal" =>
        /\ first_player \in Players
        /\ <<6, 6>> \in hands[IF first_player \in Players THEN first_player ELSE 0]

\* C7: on a non-empty table add_tile(tile) without a side raises
\* AmbiguousTilePlacement and places nothing when the tile is not a double
\* and can be played on both ends; it never raises it for a double.
C7_AmbiguousWithoutSide ==
    tiles # <<>> =>
        \A t \in Oriented :
            LET r == add_tile(Tb, t, NoSide)
            IN  /\ (t[1] # t[2] /\ can_play_left(Tb, t) /\ can_play_right(Tb, t))
                      => (r.exc = "AmbiguousTilePlacement" /\ r.tb = Tb /\ r.tile = t)
                /\ t[1] = t[2] => r.exc # "AmbiguousTilePlacement"

C7_Witness ==
    /\ last.op = "play" /\ last.side = NoSide
    /\ last.exc = "AmbiguousTilePlacement"
    /\ tiles # <<>> /\ left_end(Tb) = right_end(Tb)

\* C8: on a non-empty table add_tile(tile, side) with side "left" or "right"
\* succeeds exactly when a pip of the tile equals the value of that end, puts
\* the tile on that end with the matching pip inwards and leaves the other
\* end's value alone; otherwise it raises InvalidTilePlacement and places
\* nothing, even when the tile fits the other end.
C8_ExplicitSide ==
    tiles # <<>> =>
        /\ \A t \in Oriented :
            LET l == add_tile(Tb, t, "left")
                r == add_tile(Tb, t, "right")
            IN  /\ IF HasPip(t, left_end(Tb))
                   THEN /\ l.exc = "none"
                        /\ \E o \in {t, rotate(t)} :
                              l.tb.tiles = <<o>> \o tiles /\ o[2] = left_end(Tb)
                        /\ right_end(l.tb) = right_end(Tb)
                   ELSE l.exc = "InvalidTilePlacement" /\ l.tb = Tb
                /\ IF HasPip(t, right_end(Tb))
                   THEN /\ r.exc = "none"
                        /\ \E o \in {t, rotate(t)} :
                              r.tb.tiles = Append(tiles, o) /\ o[1] = right_end(Tb)
                        /\ left_end(r.tb) = left_end(Tb)
                   ELSE r.exc = "InvalidTilePlacement" /\ r.tb = Tb
        /\ (last.op = "play" /\ last.side \in Sides)
              => last.at \in {"first", "nowhere", last.side}

C8_Witness ==
    /\ last.op = "play" /\ last.side = "left"
    /\ last.exc = "InvalidTilePlacement"
    /\ current_player.exc = "none"
    /\ \E t \in hands[current_player.index] :
          ~HasPip(t, left_end(Tb)) /\ HasPip(t, right_end(Tb))

\* C9: on a non-empty table add_tile(tile) without a side and without
\* ambiguity puts the tile on the left end if it matches the left end,
\* otherwise on the right end if it matches the right end, and raises
\* InvalidTilePlacement if it matches neither; a double matching both ends
\* goes to the left.
C9_LeftThenRight ==
    tiles # <<>> =>
        \A t \in Oriented :
            LET r   == add_tile(Tb, t, NoSide)
                ml  == HasPip(t, left_end(Tb))
                mr  == HasPip(t, right_end(Tb))
            IN  ~(t[1] # t[2] /\ ml /\ mr) =>
                    IF ml
                    THEN /\ r.exc = "none" /\ r.at = "left"
                         /\ \E o \in {t, rotate(t)} :
                               r.tb.tiles = <<o>> \o tiles /\ o[2] = left_end(Tb)
                    ELSE IF mr
                    THEN /\ r.exc = "none" /\ r.at = "right"
                         /\ \E o \in {t, rotate(t)} :
                               r.tb.tiles = Append(tiles, o) /\ o[1] = right_end(Tb)
                    ELSE r.exc = "InvalidTilePlacement" /\ r.tb = Tb

C9_Witness ==
    /\ last.op = "play" /\ last.side = NoSide
    /\ last.exc = "none" /\ last.at = "right"
    /\ Len(tiles) >= 2

\* C10: a call of play that returns and leaves the hand of the player who
\* played empty returns that player, whatever the other players hold.
C10_EmptyHandWins ==
    [][(/\ last'.op = "play" /\ last'.exc = "none"
        /\ tiles' # tiles
        /\ current_player.exc = "none"
        /\ hands'[IF current_player.exc = "none" THEN current_player.index ELSE 0] = {})
         => last'.ret = current_player.index]_vars

C10_Witness ==
    /\ last.op = "play" /\ last.exc = "none"
    /\ last.ret \in Players
    /\ hands[IF last.ret \in Players THEN last.ret ELSE 0] = {}
    /\ \E q \in Players : hands[q] # {} /\ score(hands[q]) > 0

\* C11: a call of play that returns, leaves the hand of the player who
\* played non-empty and leaves the table blocked returns a player whose hand
\* score, the sum of the pips of the tiles in the hand, is the least of all
\* players, and the first such player in the order of the players.
C11_BlockedReturnsFirstMinimum ==
    [][(/\ last'.op = "play" /\ last'.exc = "none"
        /\ tiles' # tiles
        /\ current_player.exc = "none"
        /\ hands'[IF current_player.exc = "none" THEN current_player.index ELSE 0] # {}
        /\ is_blocked(Tb'))
         => /\ last'.ret \in Players
            /\ \A q \in Players :
                  /\ score(hands'[last'.ret]) <= score(hands'[q])
                  /\ q < last'.ret => score(hands'[q]) > score(hands'[last'.ret])]_vars

C11_Witness ==
    /\ last.op = "play" /\ last.exc = "none" /\ last.at \in Sides
    /\ is_blocked(Tb)
    /\ \A q \in Players : hands[q] # {}
    /\ last.ret \in Players
    /\ \E q \in Players :
          /\ q > last.ret
          /\ score(hands[q]) = score(hands[IF last.ret \in Players THEN last.ret ELSE 0])

\* C12: a call of draw_until_playable that returns has popped some number k
\* of tiles (at most the whole stock, so the loop ends) from the end of the
\* stock into the current player's hand and nothing else: k is 0 when the
\* player had an available play, on return the stock is empty or the player
\* has an available play, and the turn counter, the table and the other
\* players' hands are as they were.
C12_DrawUntilPlayable ==
    [][(last'.op = "draw" /\ last'.exc = "none") =>
         /\ UNCHANGED <<turn, tiles, value_counts, rotated, first_player>>
         /\ IF current_player.exc # "none"
            THEN stock = <<>> /\ UNCHANGED <<stock, hands>>
            ELSE LET cp == current_player.index
                     k  == Len(stock) - Len(stock')
                 IN  /\ k \in 0..Len(stock)
                     /\ stock' = SubSeq(stock, 1, Len(stock) - k)
                     /\ hands'[cp] = hands[cp] \cup
                            {stock[i] : i \in (Len(stock) - k + 1)..Len(stock)}
                     /\ \A q \in Players \ {cp} : hands'[q] = hands[q]
                     /\ available_plays # {} => k = 0
                     /\ \/ stock' = <<>>
                        \/ \E t \in hands'[cp] : can_play(Tb, Fields(t))]_vars

C12_Witness ==
    /\ last.op = "draw" /\ last.exc = "none"
    /\ tiles # <<>> /\ stock # <<>>
    /\ Len(stock) <= SetSize - HandSize * n - 2
    /\ current_player.exc = "none"
    /\ available_plays # {}

\* C13: when deal() returns on the freshly constructed game of n players,
\* 2 <= n <= 4, every hand holds exactly 7 tiles, the stock holds exactly
\* 28 - 7n tiles, no tile is in two hands or in a hand and in the stock or
\* twice in the stock, and the hands and the stock together are the 28 tiles
\* of the set.
C13_DealPartitionsTheSet ==
    last.op = "deal" =>
        /\ n \in MinPlayers..MaxPlayers
        /\ \A p \in Players : Cardinality(hands[p]) = HandSize
        /\ Len(stock) = SetSize - HandSize * n
        /\ Cardinality(InStock) = Len(stock)
        /\ \A p \in Players :
              /\ hands[p] \cap InStock = {}
              /\ \A q \in Players \ {p} : hands[p] \cap hands[q] = {}
        /\ InStock \cup UNION {hands[p] : p \in Players} = DOMINO_SET
        /\ Cardinality(DOMINO_SET) = SetSize

C13_Witness ==
    /\ last.op = "deal" /\ n = MaxPlayers /\ stock = <<>>
    /\ first_player \in Players
    /\ \A p \in Players : hands[p] # {}

\* C14: equality and hashing of tiles do not depend on the orientation: for
\* all pips a, b that Tile accepts, Tile(a, b) equals Tile(b, a) and has the
\* same hash, and rotate() changes neither what a tile equals nor its hash;
\* so every tile in a hand still equals, and hashes as, the tile that was
\* dealt or drawn.
C14_OrientationIndependent ==
    /\ \A t \in Oriented : TileInit(t[1], t[2]) =>
          /\ TileEq(t, <<t[2], t[1]>>)
          /\ TileHash(t) = TileHash(<<t[2], t[1]>>)
          /\ TileHash(rotate(t)) = TileHash(t)
          /\ \A u \in Oriented : TileEq(rotate(t), u) = TileEq(t, u)
    /\ \A p \in Players : \A o \in hands[p] :
          TileEq(Fields(o), o) /\ TileHash(Fields(o)) = TileHash(o)

\* The number of pips equal to v on the tiles of the table.
RECURSIVE Endpoints(_, _)
Endpoints(seq, v) ==
    IF seq = <<>> THEN 0
    ELSE (IF seq[1][1] = v THEN 1 ELSE 0) + (IF seq[1][2] = v THEN 1 ELSE 0)
         + Endpoints(Tail(seq), v)

RECURSIVE SumCounts(_, _)
SumCounts(counts, v) ==
    IF v < 0 THEN 0 ELSE counts[v] + SumCounts(counts, v - 1)

\* C15: after any sequence of successful add_tile calls from the empty
\* table, the occupancy counter at every pip value v of 0..6 is the number of
\* pips equal to v on the placed tiles; so the counters add up to twice the
\* number of placed tiles and the counter is at least 1 at left_end and at
\* right_end.
C15_CountsAreEndpoints ==
    /\ \A v \in Pips : value_counts[v] = Endpoints(tiles, v)
    /\ SumCounts(value_counts, MaxPip) = 2 * Len(tiles)
    /\ tiles # <<>> =>
          value_counts[left_end(Tb)] >= 1 /\ value_counts[right_end(Tb)] >= 1

\* C16: in every state reached through deal(), draw_until_playable() and
\* play(), the right pip of each tile of the table is the left pip of the
\* tile after it; a step changes the table only by putting one tile at its
\* left or at its right, the tiles that were on it keeping their place in
\* the row and their orientation; and the only tile a step rotates is the
\* one it puts on the table.
C16_ValidChain ==
    [][/\ \A i \in 1..(Len(tiles') - 1) : tiles'[i][2] = tiles'[i + 1][1]
       /\ \/ tiles' = tiles /\ rotated' = rotated
          \/ \E t \in Oriented :
                /\ tiles' = <<t>> \o tiles \/ tiles' = Append(tiles, t)
                /\ rotated' = rotated \/ rotated' = rotated \cup {Canon(t)}]_vars

C16_Witness ==
    /\ Len(tiles) >= 4
    /\ last.op = "play" /\ last.at = "left"
    /\ tiles[1][1] > tiles[1][2]
    /\ Canon(tiles[1]) \in rotated
    /\ \E i \in 2..Len(tiles) : tiles[i][1] > tiles[i][2]

\* C17: in every state reached after deal() by calls of draw_until_playable
\* and play, the calls that fail included, each of the 28 tiles is in exactly
\* one place: in the stock, in the hand of exactly one player, or on the
\* table, once; in particular a tile lying on the table is in no hand.
C17_TileConservation ==
    seed # 0 =>
        \A o \in DOMINO_SET :
            Cardinality({i \in DOMAIN stock : stock[i] = o})
            + Cardinality({p \in Players : o \in hands[p]})
            + Cardinality({i \in DOMAIN tiles : Canon(tiles[i]) = o}) = 1

\* C18: once a call of play has returned a winner, a later call of play or
\* of draw_until_playable changes neither the table, nor a hand, nor the
\* stock, nor the turn counter.
C18_RoundOverIsTerminal ==
    [][(last.op = "play" /\ last.ret \in Players)
         => UNCHANGED <<tiles, value_counts, hands, stock, turn>>]_vars

\* C19: the round never gets stuck: in a state reached after deal() in which
\* no play has returned a winner yet, once the current player has called
\* draw_until_playable there is a tile in that player's hand that play
\* accepts.  (No play has returned a winner while fewer than 7 tiles are on
\* the table and the counters add up to less than 8; the cases where
\* current_player raises or where a tile of the hand was rotated are left
\* out.)
C19_NeverStuck ==
    (/\ seed # 0
     /\ last.op = "draw" /\ last.exc = "none"
     /\ Len(tiles) < HandSize
     /\ SumCounts(value_counts, MaxPip) < BlockedCount
     /\ current_player.exc = "none"
     /\ rotated = {})
    => \E o \in hands[current_player.index] : \E side \in Sides \cup {NoSide} :
          play(o, FALSE, side).exc \in {"none", "KeyError"}

\* C20: a call of play that returns, leaves the hand of the player who played
\* non-empty and leaves is_blocked false adds exactly one to the turn counter
\* and returns no winner, so that the current player becomes the next player
\* in cyclic order; a call of play that returns a winner and a call of play
\* that raises leave the turn counter as it was.
C20_TurnAdvance ==
    [][last'.op = "play" =>
         IF last'.exc # "none" THEN turn' = turn
         ELSE /\ current_player.exc = "none"
              /\ (hands'[current_player.index] # {} /\ ~is_blocked(Tb')) =>
                    /\ turn' = turn + 1
                    /\ last'.ret = None_
                    /\ current_player'.exc = "none"
                    /\ current_player'.index = (current_player.index + 1) % n
              /\ last'.ret \in Players => turn' = turn]_vars

C20_Witness ==
    /\ last.op = "play" /\ last.exc = "none" /\ last.ret = None_
    /\ n = 3 /\ turn >= 2
    /\ current_player.exc = "none" /\ current_player.index = 0
    /\ \A q \in Players : hands[q] # {}

====
